---- MODULE Spec2Model ----
(***************************************************************************)
(* Model of HF_Data_Cleaning.py: generate_audit_csv and the __main__       *)
(* status report.  The batch is a sequential program; pc is its position.  *)
(* Numbers of the ledger are binary floating-point values <<m, e>>         *)
(* (m * 2^e, m odd or zero) rounded to MantBits significant bits after     *)
(* every operation, round-half-to-even, as IEEE-754 float64 does with 53.  *)
(* CAGR_Pct, Bi_Annual_Periods and Initial_Year are not modelled.          *)
(***************************************************************************)
EXTENDS Integers, Sequences, FiniteSets, TLC

VARIABLES
    pc,             \* position of the program
    raw,            \* rows returned by pd.read_excel
    df,             \* cleaned, sorted rows (line 78)
    today,          \* datetime.now() of line 81, in days
    pending,        \* ticker groups groupby has still to yield
    ticker,         \* loop variable of line 86
    group,          \* loop variable of line 86: the ticker's ledger
    md,             \* what the market-data provider answers for `ticker`
    todo,           \* split events the loop of line 97 has still to apply
    current_price,  \* local of line 92
    audit_results,  \* list of line 80
    exc,            \* exception propagating out of generate_audit_csv
    sink,           \* content of the output file
    writes,         \* number of times the output file was written
    status,         \* status lines printed by __main__
    hist,           \* history: per ticker, the ledger and locals at line 137
    groupB, todoB   \* a second copy of the ledger, for applying splits in another order

vars == <<pc, raw, df, today, pending, ticker, group, md, todo, current_price,
          audit_results, exc, sink, writes, status, hist, groupB, todoB>>

(***************************************************************************)
(* Bounds                                                                  *)
(***************************************************************************)
MantBits == 12
MaxRows == 2
MaxLedger == 3
MaxSplits == 2

(***************************************************************************)
(* Floating point                                                          *)
(***************************************************************************)
RECURSIVE Pow2(_)
Pow2(n) == IF n <= 0 THEN 1 ELSE 2 * Pow2(n - 1)

RECURSIVE BitLen(_)
BitLen(n) == IF n = 0 THEN 0 ELSE 1 + BitLen(n \div 2)

Abs(n) == IF n < 0 THEN -n ELSE n

Min2(a, b) == IF a <= b THEN a ELSE b

RECURSIVE Norm(_, _)
Norm(m, e) ==
    IF m = 0 THEN <<0, 0>>
    ELSE IF m % 2 = 0 THEN Norm(m \div 2, e + 1)
    ELSE <<m, e>>

\* nearest value with MantBits significant bits, ties to even
RoundP(m, e) ==
    LET a == Abs(m)
        k == BitLen(a) - MantBits
    IN  IF k <= 0 THEN Norm(m, e)
        ELSE LET q == a \div Pow2(k)
                 r == a % Pow2(k)
                 half == Pow2(k - 1)
                 q2 == IF r > half \/ (r = half /\ q % 2 = 1) THEN q + 1 ELSE q
             IN  Norm(IF m < 0 THEN -q2 ELSE q2, e + k)

FromInt(n) == RoundP(n, 0)

FZero == <<0, 0>>

FMul(a, b) == RoundP(a[1] * b[1], a[2] + b[2])

\* b # 0; the quotient is taken with guard bits and a sticky bit, then rounded once
FDiv(a, b) ==
    IF a[1] = 0 THEN FZero
    ELSE LET s == MantBits + 3 + BitLen(Abs(b[1])) - BitLen(Abs(a[1]))
             n == Abs(a[1]) * Pow2(s)
             d == Abs(b[1])
             mag == 2 * (n \div d) + (IF n % d = 0 THEN 0 ELSE 1)
         IN  RoundP(IF (a[1] < 0) # (b[1] < 0) THEN -mag ELSE mag,
                    a[2] - b[2] - s - 1)

\* position of the leading bit of a nonzero value
Top(a) == BitLen(Abs(a[1])) + a[2]

\* an operand below a quarter of the other's last place does not change the sum
FAdd(a, b) ==
    IF a[1] = 0 THEN b
    ELSE IF b[1] = 0 THEN a
    ELSE IF Top(a) - Top(b) > MantBits + 2 THEN a
    ELSE IF Top(b) - Top(a) > MantBits + 2 THEN b
    ELSE LET e == Min2(a[2], b[2])
         IN  RoundP(a[1] * Pow2(a[2] - e) + b[1] * Pow2(b[2] - e), e)

FAbs(a) == <<Abs(a[1]), a[2]>>

FLt(a, b) ==
    IF a[1] <= 0 /\ b[1] > 0 THEN TRUE
    ELSE IF a[1] >= 0 /\ b[1] <= 0 THEN a[1] < 0 /\ b[1] = 0
    ELSE IF a[1] < 0 /\ b[1] = 0 THEN TRUE
    ELSE IF Top(a) # Top(b) THEN (IF a[1] > 0 THEN Top(a) < Top(b) ELSE Top(a) > Top(b))
    ELSE LET e == Min2(a[2], b[2])
         IN  a[1] * Pow2(a[2] - e) < b[1] * Pow2(b[2] - e)

FLe(a, b) == ~FLt(b, a)

\* nearest integer of the exact value m * 2^e, ties to even
Rint(m, e) ==
    IF e >= 0 THEN m * Pow2(e)
    ELSE IF -e > 30 THEN 0
    ELSE LET a == Abs(m)
             q == a \div Pow2(-e)
             r == a % Pow2(-e)
             half == Pow2(-e - 1)
             q2 == IF r > half \/ (r = half /\ q % 2 = 1) THEN q + 1 ELSE q
         IN  IF m < 0 THEN -q2 ELSE q2

\* round(x, 2) of a numpy float64: multiply by 100, rint, divide by 100
Round2Np(x) ==
    LET y == FMul(x, FromInt(100))
    IN  FDiv(FromInt(Rint(y[1], y[2])), FromInt(100))

\* round(x, 2) of a Python float: the exact value rounded to 2 decimals
Round2Py(x) == FDiv(FromInt(Rint(x[1] * 100, x[2])), FromInt(100))

EPS == FDiv(FromInt(1), FromInt(1000))

RECURSIVE SumFrom(_, _)
SumFrom(acc, s) == IF s = <<>> THEN acc ELSE SumFrom(FAdd(acc, Head(s)), Tail(s))

\* Series.sum(): numpy adds fewer than 8 elements left to right
FSum(s) == SumFrom(FZero, s)

RECURSIVE CumFrom(_, _)
CumFrom(acc, s) ==
    IF s = <<>> THEN <<>>
    ELSE LET a == FAdd(acc, Head(s)) IN <<a>> \o CumFrom(a, Tail(s))

CumSum(s) == CumFrom(FZero, s)

(***************************************************************************)
(* Text cells and the ticker tables                                        *)
(***************************************************************************)
NaNCell == "<empty cell>"   \* an empty cell, read as NaN
NaNTok == "<NaN>"           \* np.nan in a text column

\* astype(str)
AsStr(c) == IF c = NaNCell THEN "nan" ELSE c

\* .str.strip().str.upper(), on the texts the input rows use
StripUpper(s) ==
    CASE s = " xom" -> "XOM"
      [] s = "fb" -> "FB"
      [] s = "nan" -> "NAN"
      [] s = " " -> ""
      [] s = "Exxon Mobil" -> "EXXON MOBIL"
      [] s = "Facebook" -> "FACEBOOK"
      [] s = "Unknown Co" -> "UNKNOWN CO"
      [] s = "Buy" -> "BUY"
      [] s = "sell " -> "SELL"
      [] OTHER -> s

TICKER_FIXES == ("FB" :> "META") @@ ("ANTM" :> "ELV")

NAME_TO_TICKER_MAP ==
    ("EXXON MOBIL" :> "XOM") @@ ("S&P DEP. RECEIPTS" :> "SPY") @@
    ("VANGUARD INDEX 500" :> "VOO") @@ ("FRONTIER AIRLINES" :> "ULCC") @@
    ("ISPAT INTERNATIONAL" :> "MT") @@ ("WORLDCOM" :> "WCOMQ") @@
    ("VISTRA CORP COM" :> "VST") @@ ("TRANSMEDICS GROUP INC" :> "TMDX") @@
    ("SOFI TECHNOLOGIES INC" :> "SOFI")

\* lines 65-69: the Ticker column of one row
ResolveTicker(stockCell, tickerCell) ==
    LET stock == StripUpper(AsStr(stockCell))
        t1 == StripUpper(AsStr(tickerCell))
        t2 == IF t1 \in {"NAN", "NONE", "", "NAT"} THEN NaNTok ELSE t1
        t3 == IF t2 = NaNTok
              THEN (IF stock \in DOMAIN NAME_TO_TICKER_MAP
                    THEN NAME_TO_TICKER_MAP[stock] ELSE NaNTok)
              ELSE t2
    IN  IF t3 \in DOMAIN TICKER_FIXES THEN TICKER_FIXES[t3] ELSE t3

\* the tickers a run of the model can meet, in Python's string order
TickerOrder == <<"", "ELV", "META", "MT", "NAN", "NONE", "SOFI", "SPY", "TMDX",
                 "ULCC", "VOO", "VST", "WCOMQ", "XOM">>

(***************************************************************************)
(* Cleaning (lines 74-78)                                                  *)
(***************************************************************************)
NaT == -1

\* pd.to_datetime(errors='coerce')
ToDatetime(c) == IF c.k = "date" THEN c.v ELSE NaT

\* pd.to_numeric(errors='coerce').fillna(0)
ToNumeric(c) == IF c.k = "num" THEN c.v ELSE FZero

CleanRow(i, r) ==
    [idx |-> i,
     Stock |-> StripUpper(AsStr(r.Stock)),
     Ticker |-> ResolveTicker(r.Stock, r.Ticker),
     Trade |-> StripUpper(AsStr(r.Trade)),
     Date |-> ToDatetime(r.Date),
     Shares |-> ToNumeric(r.Shares),
     Price |-> ToNumeric(r.Price),
     Value |-> ToNumeric(r.Value)]

\* dropna(subset=['Date', 'Ticker'])
DropNa(rows) == SelectSeq(rows, LAMBDA r : r.Date # NaT /\ r.Ticker # NaNTok)

Cleaned(rows) == DropNa([i \in 1..Len(rows) |-> CleanRow(i, rows[i])])

Perms(n) == {p \in [1..n -> 1..n] : \A i, j \in 1..n : p[i] = p[j] => i = j}

\* sort_values('Date'): kind defaults to 'quicksort', which is not stable (numpy's
\* introsort keeps ties in place only while a partition has at most 16 elements),
\* so every ascending arrangement of the rows is a possible result
SortValues(rows) ==
    {s \in {[i \in 1..Len(rows) |-> rows[p[i]]] : p \in Perms(Len(rows))} :
        \A i \in 1..(Len(s) - 1) : s[i].Date <= s[i + 1].Date}

\* faulty variant: groupby(sort=False), the keys in order of first appearance
RECURSIVE FirstSeen(_, _)
FirstSeen(d, acc) ==
    IF d = <<>> THEN acc
    ELSE FirstSeen(Tail(d),
                   IF \E i \in 1..Len(acc) : acc[i] = Head(d).Ticker
                   THEN acc ELSE Append(acc, Head(d).Ticker))

GroupKeysUnsorted(d) == FirstSeen(d, <<>>)

\* groupby('Ticker'): the keys, ascending
GroupKeys(d) == SelectSeq(TickerOrder, LAMBDA t : \E i \in 1..Len(d) : d[i].Ticker = t)

\* groupby('Ticker'): one group, its rows in the order of df
GroupOf(d, t) == SelectSeq(d, LAMBDA r : r.Ticker = t)

(***************************************************************************)
(* Split adjustment (lines 97-100)                                         *)
(***************************************************************************)
\* Timestamp.tz_localize(None): the wall-clock time, the zone dropped
TzLocalizeNone(ts) == ts.wall

\* faulty variant: a trade on the split's effective date is adjusted too
ApplySplitOnDate(g, ev) ==
    [i \in 1..Len(g) |->
        IF g[i].Date <= TzLocalizeNone(ev.date)
        THEN [g[i] EXCEPT !.Shares = FMul(@, ev.ratio), !.Price = FDiv(@, ev.ratio)]
        ELSE g[i]]

\* faulty variant: each pass overwrites with the original value rescaled, instead of
\* rescaling the running value
ApplySplitOverwrite(g, ev) ==
    [i \in 1..Len(g) |->
        IF g[i].Date < TzLocalizeNone(ev.date)
        THEN LET o == CHOOSE r \in {df[n] : n \in 1..Len(df)} : r.idx = g[i].idx
             IN  [g[i] EXCEPT !.Shares = FMul(o.Shares, ev.ratio),
                              !.Price = FDiv(o.Price, ev.ratio)]
        ELSE g[i]]

ApplySplit(g, ev) ==
    [i \in 1..Len(g) |->
        IF g[i].Date < TzLocalizeNone(ev.date)
        THEN [g[i] EXCEPT !.Shares = FMul(@, ev.ratio), !.Price = FDiv(@, ev.ratio)]
        ELSE g[i]]

(***************************************************************************)
(* Aggregation (lines 108-150)                                             *)
(***************************************************************************)
None == <<>>

Column(g, f) == [i \in 1..Len(g) |-> g[i][f]]

RECURSIVE MinDate(_)
MinDate(g) ==
    IF Len(g) = 1 THEN g[1].Date
    ELSE LET m == MinDate(Tail(g)) IN IF g[1].Date <= m THEN g[1].Date ELSE m

\* lines 108-109
FallbackPrice(cp, g) == IF cp = None \/ cp = FZero THEN g[Len(g)].Price ELSE cp

\* faulty variant: only an exactly empty position counts as closed
IsExitedNoEpsilon(net_shares) == FLe(net_shares, FZero)

IsExited(net_shares) == FLe(net_shares, EPS)

WasEverZero(running) == \E i \in 1..Len(running) : FLt(FAbs(running[i]), EPS)

ReEntered(running, net_shares) == WasEverZero(running) /\ FLt(EPS, net_shares)

\* faulty variant: a year of 365 days
YearsHeld365(now, first_date) ==
    (2 * (now - first_date) * 100 + 365) \div (2 * 365)

\* round((today - first_date).days / 365.25, 2), in hundredths of a year
YearsHeld100(now, first_date) ==
    (2 * (now - first_date) * 10000 + 36525) \div (2 * 36525)

\* the locals of lines 108-128
Locals(g, cp, now) ==
    LET price == FallbackPrice(cp, g)
        net_shares == FSum(Column(g, "Shares"))
        market_value == FMul(net_shares, price)
        total_pl == FAdd(market_value, FSum(Column(g, "Value")))
        buys == SelectSeq(g, LAMBDA r : r.Trade = "BUY")
        total_bought_shares == FSum(Column(buys, "Shares"))
        invested_cap == FAbs(FSum(Column(buys, "Value")))
        running == CumSum(Column(g, "Shares"))
    IN  [current_price |-> price,
         net_shares |-> net_shares,
         market_value |-> market_value,
         total_pl |-> total_pl,
         invested_cap |-> invested_cap,
         avg_buy_price |-> IF FLt(FZero, total_bought_shares)
                           THEN FDiv(invested_cap, total_bought_shares) ELSE FZero,
         is_exited |-> IsExited(net_shares),
         running |-> running,
         re_entered |-> ReEntered(running, net_shares),
         first_date |-> MinDate(g)]

\* lines 137-150
AuditRecord(t, m, now) ==
    [Ticker |-> t,
     Avg_Price_Paid |-> Round2Np(m.avg_buy_price),
     Current_Price |-> Round2Py(m.current_price),
     Current_Shares |-> Round2Np(m.net_shares),
     Position_Size_USD |-> Round2Np(m.market_value),
     Total_PL_USD |-> Round2Np(m.total_pl),
     Exited |-> IF m.is_exited THEN "Yes" ELSE "No",
     Re_Entered |-> IF m.re_entered THEN "Yes" ELSE "No",
     Years_Held |-> YearsHeld100(now, m.first_date)]

(***************************************************************************)
(* Inputs: the rows of the spreadsheet, the provider's answers, the clock  *)
(***************************************************************************)
D1997 == 10000      \* 1997-05-19, in days since 1970-01-01
D2000 == 10957      \* 2000-01-01
D2003 == 12053      \* 2003-01-01
D2005 == 12784      \* 2005-01-01
D2010 == 14610      \* 2010-01-01
D2026 == 20763      \* 2026-11-06

Num(n) == [k |-> "num", v |-> FromInt(n)]
Day(d) == [k |-> "date", v |-> d]
Text(t) == [k |-> "text", v |-> t]

RowBuyXom ==
    [Stock |-> "Exxon Mobil", Ticker |-> " xom", Trade |-> "Buy", Date |-> Day(D2000),
     Shares |-> Num(100), Price |-> Num(50), Value |-> Num(-5000)]
RowSellXom ==
    [Stock |-> "Exxon Mobil", Ticker |-> NaNCell, Trade |-> "sell ", Date |-> Day(D2010),
     Shares |-> Num(-100), Price |-> Num(80), Value |-> Num(8000)]
RowRebuyXom ==
    [Stock |-> "EXXON MOBIL", Ticker |-> "XOM", Trade |-> "BUY", Date |-> Day(D2010),
     Shares |-> Num(50), Price |-> Num(60), Value |-> Num(-3000)]
RowNoSharesXom ==
    [Stock |-> "EXXON MOBIL", Ticker |-> "XOM", Trade |-> "BUY", Date |-> Day(D1997),
     Shares |-> Text("n/a"), Price |-> Num(40), Value |-> Num(0)]
RowBuyFb ==
    [Stock |-> "Facebook", Ticker |-> "fb", Trade |-> "BUY", Date |-> Day(D2003),
     Shares |-> Num(4095), Price |-> Num(7), Value |-> Num(-28665)]
RowNoTicker ==
    [Stock |-> "Unknown Co", Ticker |-> " ", Trade |-> "BUY", Date |-> Day(D2000),
     Shares |-> Num(10), Price |-> Num(5), Value |-> Num(-50)]
RowNoDate ==
    [Stock |-> "Exxon Mobil", Ticker |-> "XOM", Trade |-> "BUY", Date |-> Text("soon"),
     Shares |-> Num(10), Price |-> Num(5), Value |-> Num(-50)]

RawRows == {RowBuyXom, RowSellXom, RowRebuyXom, RowNoSharesXom, RowBuyFb,
            RowNoTicker, RowNoDate}

SeqsUpTo(S, n) == UNION {[1..k -> S] : k \in 0..n}

Event(d, r) == [date |-> [wall |-> d, tz |-> "America/New_York"], ratio |-> FromInt(r)]

\* a split on the day of the 2010 rows, one the day after, one in 2005
Events == {Event(D2005, 3), Event(D2010, 5), Event(D2010 + 1, 2)}

\* the answers to stock_obj.splits the batch is run against
SplitAnswers ==
    {[fails |-> TRUE, splits |-> <<>>],
     [fails |-> FALSE, splits |-> <<>>],
     [fails |-> FALSE, splits |-> <<Event(D2010, 5), Event(D2005, 3)>>]}

\* the answers to fast_info.get('lastPrice')
PriceAnswers ==
    {[k |-> "raise", v |-> FZero], [k |-> "none", v |-> FZero],
     [k |-> "val", v |-> FZero], [k |-> "val", v |-> FromInt(90)]}

NoMd == [fails |-> FALSE, splits |-> <<>>, price |-> [k |-> "none", v |-> FZero]]

Clock == {D2010, D2026}

(***************************************************************************)
(* The batch: generate_audit_csv and __main__                              *)
(***************************************************************************)
Init ==
    /\ pc = "load"
    /\ raw = <<>>
    /\ df = <<>>
    /\ today = 0
    /\ pending = <<>>
    /\ ticker = ""
    /\ group = <<>>
    /\ md = NoMd
    /\ todo = <<>>
    /\ current_price = None
    /\ audit_results = <<>>
    /\ exc = "none"
    /\ sink = <<>>
    /\ writes = 0
    /\ status = <<>>
    /\ hist = <<>>
    /\ groupB = <<>>
    /\ todoB = <<>>

\* line 59: pd.read_excel returns the rows, or raises
Load ==
    /\ pc = "load"
    /\ \/ \E rows \in SeqsUpTo(RawRows, MaxRows) :
            /\ raw' = rows
            /\ pc' = "clean"
            /\ exc' = "none"
       \/ \E e \in {"PermissionError:input", "FileNotFoundError:input"} :
            /\ raw' = raw
            /\ pc' = "main"
            /\ exc' = e
    /\ UNCHANGED <<df, today, pending, ticker, group, md, todo, current_price,
                   audit_results, sink, writes, status, hist, groupB, todoB>>

\* lines 60-81: the columns are looked up (KeyError when one is missing),
\* the rows cleaned and sorted, the clock read
Clean ==
    /\ pc = "clean"
    /\ \/ /\ \E s \in SortValues(Cleaned(raw)) :
                /\ df' = s
                /\ pending' = GroupKeys(s)
          /\ \E now \in Clock : today' = now
          /\ pc' = "loop"
          /\ exc' = "none"
       \/ /\ pc' = "main"
          /\ exc' = "KeyError:input"
          /\ UNCHANGED <<df, pending, today>>
    /\ UNCHANGED <<raw, ticker, group, md, todo, current_price, audit_results,
                   sink, writes, status, hist, groupB, todoB>>

\* lines 86-92: the next group, and what the provider will answer for it
NextGroup ==
    /\ pc = "loop"
    /\ pending # <<>>
    /\ ticker' = Head(pending)
    /\ pending' = Tail(pending)
    /\ group' = GroupOf(df, Head(pending))
    /\ IF Head(pending) \in {"NAN", "NONE", ""}
       THEN /\ pc' = "loop"
            /\ UNCHANGED <<md, current_price>>
       ELSE /\ pc' = "splits"
            /\ current_price' = None
            /\ \E a \in SplitAnswers, p \in PriceAnswers :
                  md' = [fails |-> a.fails, splits |-> a.splits, price |-> p]
    /\ UNCHANGED <<raw, df, today, todo, audit_results, exc, sink, writes, status,
                   hist, groupB, todoB>>

\* faulty variant: a failed fetch skips the ticker
FetchSplitsSkip ==
    /\ pc = "splits"
    /\ IF md.fails
       THEN pc' = "loop" /\ todo' = <<>>
       ELSE pc' = "apply" /\ todo' = md.splits
    /\ UNCHANGED <<raw, df, today, pending, ticker, group, md, current_price,
                   audit_results, exc, sink, writes, status, hist, groupB, todoB>>

\* lines 94-96: stock_obj.splits
FetchSplits ==
    /\ pc = "splits"
    /\ IF md.fails
       THEN pc' = "aggregate" /\ todo' = <<>>
       ELSE pc' = "apply" /\ todo' = md.splits
    /\ UNCHANGED <<raw, df, today, pending, ticker, group, md, current_price,
                   audit_results, exc, sink, writes, status, hist, groupB, todoB>>

\* lines 97-100: one pass of the loop over the split events
ApplyNext ==
    /\ pc = "apply"
    /\ todo # <<>>
    /\ group' = ApplySplit(group, Head(todo))
    /\ todo' = Tail(todo)
    /\ UNCHANGED <<pc, raw, df, today, pending, ticker, md, current_price,
                   audit_results, exc, sink, writes, status, hist, groupB, todoB>>

\* the loop of line 97 ends
SplitsDone ==
    /\ pc = "apply"
    /\ todo = <<>>
    /\ pc' = "price"
    /\ UNCHANGED <<raw, df, today, pending, ticker, group, md, todo, current_price,
                   audit_results, exc, sink, writes, status, hist, groupB, todoB>>

\* lines 102-106: fast_info.get('lastPrice')
LivePrice(cp, p) ==
    IF p.k = "val" /\ p.v # FZero THEN p.v ELSE cp

FetchPrice ==
    /\ pc = "price"
    /\ current_price' = LivePrice(current_price, md.price)
    /\ pc' = "aggregate"
    /\ UNCHANGED <<raw, df, today, pending, ticker, group, md, todo,
                   audit_results, exc, sink, writes, status, hist, groupB, todoB>>

\* lines 108-150
Aggregate ==
    /\ pc = "aggregate"
    /\ LET m == Locals(group, current_price, today)
       IN  /\ audit_results' = Append(audit_results, AuditRecord(ticker, m, today))
           /\ hist' = Append(hist, [ticker |-> ticker, group |-> group, md |-> md,
                                    locals |-> m])
    /\ pc' = "loop"
    /\ UNCHANGED <<raw, df, today, pending, ticker, group, md, todo, current_price,
                   exc, sink, writes, status, groupB, todoB>>

\* lines 155-157: to_csv writes the file, or raises
WriteCsv ==
    /\ pc = "loop"
    /\ pending = <<>>
    /\ pc' = "main"
    /\ \/ /\ sink' = audit_results
          /\ writes' = writes + 1
          /\ exc' = "none"
       \/ /\ \E e \in {"PermissionError:output", "OSError:output"} : exc' = e
          /\ UNCHANGED <<sink, writes>>
    /\ UNCHANGED <<raw, df, today, pending, ticker, group, md, todo, current_price,
                   audit_results, status, hist, groupB, todoB>>

\* lines 162-173: the message __main__ prints for what generate_audit_csv did
StatusOf(e) ==
    IF e = "none" THEN <<"SUCCESS", "PATH">>
    ELSE IF e \in {"PermissionError:input", "PermissionError:output"}
    THEN <<"FAILED", "Permission denied. Please CLOSE the output file">>
    ELSE <<"FAILED", e>>

Report ==
    /\ pc = "main"
    /\ status' = Append(status, StatusOf(exc))
    /\ pc' = "exit"
    /\ UNCHANGED <<raw, df, today, pending, ticker, group, md, todo, current_price,
                   audit_results, exc, sink, writes, hist, groupB, todoB>>

Next == Load \/ Clean \/ NextGroup \/ FetchSplits \/ ApplyNext \/ SplitsDone
        \/ FetchPrice \/ Aggregate \/ WriteCsv \/ Report

Spec == Init /\ [][Next]_vars

(***************************************************************************)
(* The split adjustment alone: one ledger and one list of split events,    *)
(* applied in the order supplied (group) and in another order (groupB)     *)
(***************************************************************************)
LedgerRow(i, d, trade, sh, pr) ==
    [idx |-> i, Stock |-> "EXXON MOBIL", Ticker |-> "XOM", Trade |-> trade, Date |-> d,
     Shares |-> sh, Price |-> pr, Value |-> FMul(<<-1, 0>>, FMul(sh, pr))]

\* (date, shares, price) of the rows the split ledgers are made of
SplitRows == {<<D2003, 4095, 7>>, <<D2010 - 1, 100, 80>>, <<D2010, 50, 60>>}

SplitLedgers ==
    {[i \in 1..Len(s) |-> LedgerRow(i, s[i][1], "BUY", FromInt(s[i][2]), FromInt(s[i][3]))] :
        s \in {t \in SeqsUpTo(SplitRows, MaxLedger) :
                 /\ Len(t) > 0
                 /\ \A i \in 1..(Len(t) - 1) : t[i][1] <= t[i + 1][1]}}

\* the provider's split series: at most one event per date
SplitLists ==
    {s \in SeqsUpTo(Events, MaxSplits) : \A i, j \in 1..Len(s) : s[i] = s[j] => i = j}

Reordered(s) == {[i \in 1..Len(s) |-> s[p[i]]] : p \in Perms(Len(s))}

InitSplit ==
    /\ pc = "apply"
    /\ raw = <<>>
    /\ today = D2026
    /\ pending = <<>>
    /\ ticker = "XOM"
    /\ group \in SplitLedgers
    /\ df = group
    /\ groupB = group
    /\ \E evs \in SplitLists :
          /\ md = [fails |-> FALSE, splits |-> evs, price |-> [k |-> "none", v |-> FZero]]
          /\ todo = evs
          /\ todoB \in Reordered(evs)
    /\ current_price = None
    /\ audit_results = <<>>
    /\ exc = "none"
    /\ sink = <<>>
    /\ writes = 0
    /\ status = <<>>
    /\ hist = <<>>

\* lines 97-100 on the second copy
ApplyNextB ==
    /\ pc = "apply"
    /\ todoB # <<>>
    /\ groupB' = ApplySplit(groupB, Head(todoB))
    /\ todoB' = Tail(todoB)
    /\ UNCHANGED <<pc, raw, df, today, pending, ticker, group, md, todo, current_price,
                   audit_results, exc, sink, writes, status, hist>>

NextSplit == ApplyNext \/ ApplyNextB

SpecSplit == InitSplit /\ [][NextSplit]_vars

(***************************************************************************)
(* The aggregation alone: one ledger, a live price or none, the clock      *)
(***************************************************************************)
\* signed share counts of the ledgers: nothing, 2^-10, 50, 100, -100
AggShares == {FZero, <<1, -10>>, FromInt(50), FromInt(100), FromInt(-100)}

AggLedgers ==
    {[i \in 1..Len(s) |->
        LedgerRow(i, D2000 + 30 * i, IF FLt(s[i], FZero) THEN "SELL" ELSE "BUY",
                  s[i], FromInt(50))] :
        s \in {t \in SeqsUpTo(AggShares, MaxLedger) : Len(t) > 0}}

InitAgg ==
    /\ pc = "aggregate"
    /\ raw = <<>>
    /\ today \in Clock
    /\ pending = <<>>
    /\ ticker = "XOM"
    /\ group \in AggLedgers
    /\ df = group
    /\ groupB = <<>>
    /\ md = NoMd
    /\ todo = <<>>
    /\ todoB = <<>>
    /\ current_price \in {None, FromInt(90)}
    /\ audit_results = <<>>
    /\ exc = "none"
    /\ sink = <<>>
    /\ writes = 0
    /\ status = <<>>
    /\ hist = <<>>

NextAgg == Aggregate

SpecAgg == InitAgg /\ [][NextAgg]_vars

(***************************************************************************)
(* Exact arithmetic on values m * 2^e, used to state the properties        *)
(***************************************************************************)
XMul(a, b) == Norm(a[1] * b[1], a[2] + b[2])

XSub(a, b) ==
    LET e == Min2(a[2], b[2])
    IN  Norm(a[1] * Pow2(a[2] - e) - b[1] * Pow2(b[2] - e), e)

\* |x - y| is at most n units of roundoff (2^-MantBits) of |y|
CloseTo(x, y, n) ==
    LET d == XSub(x, y)
    IN  FLe(<<Abs(d[1]), d[2] + MantBits>>, <<n * Abs(y[1]), y[2]>>)

\* the split events of evs that take effect strictly after the row's date
Applicable(row, evs) == {j \in 1..Len(evs) : row.Date < evs[j].date.wall}

RECURSIVE XProd(_, _)
XProd(row, evs) ==
    IF evs = <<>> THEN <<1, 0>>
    ELSE IF row.Date < Head(evs).date.wall
    THEN XMul(Head(evs).ratio, XProd(row, Tail(evs)))
    ELSE XProd(row, Tail(evs))

RECURSIVE FProd(_, _, _)
FProd(acc, row, evs) ==
    IF evs = <<>> THEN acc
    ELSE FProd(IF row.Date < Head(evs).date.wall THEN FMul(acc, Head(evs).ratio) ELSE acc,
               row, Tail(evs))

SplitsApplied == pc = "apply" /\ todo = <<>>

SameButSharesPrice(a, b) == [a EXCEPT !.Shares = b.Shares, !.Price = b.Price] = b

(***************************************************************************)
(* C1 (as amended): once every split event has been applied, each           *)
(* transaction's shares are its original shares times the product of the    *)
(* ratios of exactly the splits effective strictly after its date, and its  *)
(* price the original price divided by that product, up to one floating-    *)
(* point rounding per applied split; a transaction with no such split (one  *)
(* dated on the effective date, or a ticker without splits) is unchanged.   *)
(***************************************************************************)
C1_SplitResultWithinRounding ==
    SplitsApplied =>
        /\ Len(group) = Len(df)
        /\ \A i \in 1..Len(group) :
              LET k == Cardinality(Applicable(df[i], md.splits))
                  prod == XProd(df[i], md.splits)
              IN  /\ SameButSharesPrice(group[i], df[i])
                  /\ k = 0 => group[i] = df[i]
                  /\ CloseTo(group[i].Shares, XMul(df[i].Shares, prod), k + 1)
                  /\ CloseTo(XMul(group[i].Price, prod), df[i].Price, k + 1)

\* C1 as stated: shares and price equal the original rescaled by the product
C1_SplitResultExact ==
    SplitsApplied =>
        \A i \in 1..Len(group) :
            LET prod == FProd(<<1, 0>>, df[i], md.splits)
            IN  /\ group[i].Shares = FMul(df[i].Shares, prod)
                /\ group[i].Price = FDiv(df[i].Price, prod)

\* two splits applied to a ledger with a trade on the effective date of one
\* of them (left alone) and a trade one day earlier (adjusted)
C1_Witness ==
    /\ SplitsApplied
    /\ Len(md.splits) = 2
    /\ \E i, j \in 1..Len(group), n \in 1..Len(md.splits) :
          /\ df[j].Date = md.splits[n].date.wall
          /\ df[i].Date = md.splits[n].date.wall - 1
          /\ group[j] = df[j]
          /\ group[i] # df[i]
    /\ \E i \in 1..Len(group) : Cardinality(Applicable(df[i], md.splits)) = 2

(***************************************************************************)
(* C2 (as amended): the same split events applied in two different orders   *)
(* give, for every transaction, shares and prices that agree within         *)
(* floating-point tolerance (two roundings per applied split).              *)
(***************************************************************************)
BothOrdersApplied == pc = "apply" /\ todo = <<>> /\ todoB = <<>>

C2_OrdersAgreeWithinTolerance ==
    BothOrdersApplied =>
        /\ Len(group) = Len(groupB)
        /\ \A i \in 1..Len(group) :
              LET k == Cardinality(Applicable(df[i], md.splits))
              IN  /\ SameButSharesPrice(group[i], groupB[i])
                  /\ CloseTo(group[i].Shares, groupB[i].Shares, 2 * k + 2)
                  /\ CloseTo(group[i].Price, groupB[i].Price, 2 * k + 2)

\* C2 as stated: the two orders give identical ledgers
C2_OrdersAgreeExactly == BothOrdersApplied => group = groupB

\* two orders of the same events applied, with a different last bit
C2_Witness == BothOrdersApplied /\ group # groupB

(***************************************************************************)
(* The batch's history                                                      *)
(***************************************************************************)
RECURSIVE ApplyAll(_, _)
ApplyAll(g, evs) == IF evs = <<>> THEN g ELSE ApplyAll(ApplySplit(g, Head(evs)), Tail(evs))

PriceValid(p) == p.k = "val" /\ p.v # FZero

MarketDataFailed(m) == m.fails \/ m.price.k = "raise"

LoopOver == pc \in {"main", "exit"} /\ exc \in {"none", "PermissionError:output", "OSError:output"}

(***************************************************************************)
(* C3 (as amended): a market-data failure for one ticker never aborts the   *)
(* batch and an AuditRecord is still produced for that ticker; when the     *)
(* split-schedule fetch fails the ledger is entirely unadjusted, when the   *)
(* live-price call fails after the splits were fetched the ledger keeps     *)
(* its split adjustments and the price falls back to the last transaction;  *)
(* every ticker's record is determined by its own ledger and its own        *)
(* answers alone, so other tickers' records are as without the failure.     *)
(***************************************************************************)
C3_FailureIsolated ==
    /\ Len(audit_results) = Len(hist)
    /\ LoopOver => Len(audit_results) = Len(GroupKeys(df))
    /\ \A j \in 1..Len(hist) : audit_results[j].Ticker = hist[j].ticker
    \* the record just appended is computed from its own ledger and answers
    /\ (pc = "loop" /\ hist # <<>>) =>
          LET h == hist[Len(hist)]
              g0 == GroupOf(df, h.ticker)
              cp == IF ~h.md.fails /\ PriceValid(h.md.price) THEN h.md.price.v ELSE None
          IN  /\ h.group = IF h.md.fails THEN g0 ELSE ApplyAll(g0, h.md.splits)
              /\ h.locals = Locals(h.group, cp, today)
              /\ audit_results[Len(hist)] = AuditRecord(h.ticker, h.locals, today)
    \* at the end of the run every record stands as it was appended
    /\ pc = "exit" => \A i \in 1..Len(hist) :
          LET h == hist[i]
              g0 == GroupOf(df, h.ticker)
          IN  /\ h.group = IF h.md.fails THEN g0 ELSE ApplyAll(g0, h.md.splits)
              /\ MarketDataFailed(h.md) =>
                    audit_results[i].Current_Price =
                        Round2Py(h.group[Len(h.group)].Price)

\* C3 as stated: after any market-data failure the ledger is entirely unadjusted
C3_AnyFailureLeavesLedgerUnadjusted ==
    \A i \in 1..Len(hist) :
        MarketDataFailed(hist[i].md) => hist[i].group = GroupOf(df, hist[i].ticker)

\* a finished batch of two tickers: one whose live-price call failed after its
\* splits were applied, one whose split fetch failed
C3_Witness ==
    /\ pc = "exit"
    /\ exc = "none"
    /\ Len(sink) = 2
    /\ \E i, j \in 1..Len(hist) :
          /\ hist[i].md.price.k = "raise"
          /\ ~hist[i].md.fails
          /\ hist[i].group # GroupOf(df, hist[i].ticker)
          /\ hist[j].md.fails

(***************************************************************************)
(* C4: the record's current price is the live price whenever the provider   *)
(* can supply a valid one, whether or not the split fetch succeeded.        *)
(***************************************************************************)
C4_LivePricePreferred ==
    \A i \in 1..Len(hist) :
        PriceValid(hist[i].md.price) =>
            audit_results[i].Current_Price = Round2Py(hist[i].md.price.v)

(***************************************************************************)
(* C5: exited is true iff net_shares, the sum of the signed shares, is at   *)
(* most 0.001; re_entered is true iff some running sum of the shares is     *)
(* within 0.001 of zero and net_shares is above 0.001.  The ledger          *)
(* [+100, -100, +50] gives exited = No, re_entered = Yes; the ledger        *)
(* [+100, -100] gives exited = Yes, re_entered = No.  The sums are the      *)
(* left-to-right float sums; the comparisons with 1/1000 are exact.         *)
(***************************************************************************)
\* x <= 1/1000, for x = m * 2^e
AtMostMilli(x) ==
    \/ x[1] <= 0
    \/ x[2] < 0 /\ (-x[2] > 30 \/ 1000 * x[1] <= Pow2(-x[2]))

\* |x| < 1/1000
WithinMilli(x) ==
    \/ x[1] = 0
    \/ x[2] < 0 /\ (-x[2] > 30 \/ 1000 * Abs(x[1]) < Pow2(-x[2]))

Aggregated == pc = "loop" /\ Len(audit_results) = 1

C5_LifecycleFlags ==
    Aggregated =>
        LET rec == audit_results[1]
            sh == Column(group, "Shares")
            net == FSum(sh)
        IN  /\ (rec.Exited = "Yes") <=> AtMostMilli(net)
            /\ (rec.Re_Entered = "Yes") <=>
                  /\ \E n \in 1..Len(sh) : WithinMilli(FSum(SubSeq(sh, 1, n)))
                  /\ ~AtMostMilli(net)
            /\ rec.Exited \in {"Yes", "No"} /\ rec.Re_Entered \in {"Yes", "No"}
            /\ sh = <<FromInt(100), FromInt(-100), FromInt(50)>> =>
                  rec.Exited = "No" /\ rec.Re_Entered = "Yes"
            /\ sh = <<FromInt(100), FromInt(-100)>> =>
                  rec.Exited = "Yes" /\ rec.Re_Entered = "No"

\* the ledger [+100, -100, +50] aggregated
C5_Witness ==
    /\ Aggregated
    /\ Column(group, "Shares") = <<FromInt(100), FromInt(-100), FromInt(50)>>
    /\ audit_results[1].Re_Entered = "Yes"

(***************************************************************************)
(* C6: after cleaning the rows are in ascending date order, rows of equal   *)
(* date in their source order, and no row twice.                            *)
(***************************************************************************)
C6_StableDateOrder ==
    \A i, j \in 1..Len(df) :
        i < j => \/ df[i].Date < df[j].Date
                 \/ df[i].Date = df[j].Date /\ df[i].idx < df[j].idx

(***************************************************************************)
(* C7: the output file is written at most once, only when no group is left  *)
(* to process, and not at all in a run that fails; on success it holds one  *)
(* record per distinct resolved ticker that survived cleaning, ascending.   *)
(***************************************************************************)
Rank(t) == CHOOSE n \in 1..Len(TickerOrder) : TickerOrder[n] = t

SurvivingTickers ==
    {ResolveTicker(raw[i].Stock, raw[i].Ticker) :
        i \in {n \in 1..Len(raw) : raw[n].Date.k = "date"}} \ {NaNTok}

C7_WrittenOnceAtEnd ==
    /\ writes <= 1
    /\ writes = 1 =>
          /\ pc \in {"main", "exit"}
          /\ pending = <<>>
          /\ exc = "none"
          /\ sink = audit_results
          /\ {sink[i].Ticker : i \in 1..Len(sink)} = SurvivingTickers
          /\ \A i \in 1..(Len(sink) - 1) : Rank(sink[i].Ticker) < Rank(sink[i + 1].Ticker)
    /\ writes = 0 => sink = <<>>
    /\ (pc = "exit" /\ exc = "none") => writes = 1
    /\ exc # "none" => writes = 0

\* a successful run that wrote the records of two tickers
C7_Witness == pc = "exit" /\ exc = "none" /\ writes = 1 /\ Len(sink) = 2

(***************************************************************************)
(* C8: every run ends with exactly one status line; the permission-denied   *)
(* diagnosis is printed exactly when the output destination is locked or    *)
(* inaccessible, every other failure gets the generic message.              *)
(***************************************************************************)
C8_ExitContract ==
    pc = "exit" =>
        /\ Len(status) = 1
        /\ status[1][1] = (IF exc = "none" THEN "SUCCESS" ELSE "FAILED")
        /\ (status[1][2] = "Permission denied. Please CLOSE the output file")
              <=> exc = "PermissionError:output"
        /\ (exc # "none" /\ exc # "PermissionError:output") => status[1][2] = exc

(***************************************************************************)
(* C9 (as amended): for the rows [BUY 100 XOM @ 50 on 2000-01-01, cash      *)
(* -5000; SELL -100 XOM @ 80 on 2010-01-01, cash +8000], no splits and any  *)
(* current price, net_shares = 0, total_pl = 3000, invested_cap = 5000,     *)
(* avg_buy_price = 50, exited, not re-entered, and years_held is the time   *)
(* from 2000-01-01 to the clock of the run: 10.0 for a run on 2010-01-01,   *)
(* 26.85 for a run on 2026-11-06.                                           *)
(***************************************************************************)
Scenario == <<RowBuyXom, RowSellXom>>

ScenarioFigures(i) ==
    LET m == hist[i].locals
        rec == audit_results[i]
    IN  /\ rec.Ticker = "XOM"
        /\ m.net_shares = FZero
        /\ m.total_pl = FromInt(3000)
        /\ m.total_pl = FSum(Column(hist[i].group, "Value"))
        /\ m.invested_cap = FromInt(5000)
        /\ m.avg_buy_price = FromInt(50)
        /\ rec.Exited = "Yes"
        /\ rec.Re_Entered = "No"

C9_ScenarioYearsToClock ==
    \A i \in 1..Len(hist) :
        (raw = Scenario /\ hist[i].md.splits = <<>>) =>
            /\ ScenarioFigures(i)
            /\ today = D2010 => audit_results[i].Years_Held = 1000
            /\ today = D2026 => audit_results[i].Years_Held = 2685

\* C9 as stated: years_held is 10.0 to within 0.05
C9_EndToEndScenario ==
    \A i \in 1..Len(hist) :
        (raw = Scenario /\ hist[i].md.splits = <<>>) =>
            /\ ScenarioFigures(i)
            /\ audit_results[i].Years_Held \in 995..1005

\* the scenario aggregated in a run of 2026 with a live price
C9_Witness ==
    /\ raw = Scenario
    /\ today = D2026
    /\ Len(hist) = 1
    /\ hist[1].md.splits = <<>>
    /\ ~hist[1].md.fails
    /\ PriceValid(hist[1].md.price)
    /\ audit_results[1].Years_Held = 2685

(***************************************************************************)
(* C10: whenever re_entered is reported, the running share balance was      *)
(* above epsilon at some point, within epsilon of zero at a later point,    *)
(* and is above epsilon at the end.                                         *)
(***************************************************************************)
C10_ReEnteredMeansClosedThenReopened ==
    \A i \in 1..Len(hist) :
        audit_results[i].Re_Entered = "Yes" =>
            LET run == hist[i].locals.running
            IN  /\ FLt(EPS, hist[i].locals.net_shares)
                /\ \E a, b \in 1..Len(run) :
                      a < b /\ FLt(EPS, run[a]) /\ FLt(FAbs(run[b]), EPS)

====
